---- MODULE Spec2Model ----
(***************************************************************************)
(* Model of the instrument_query attribute macro (src/lib.rs).             *)
(*                                                                         *)
(* A token stream is a sequence of strings, one string per token;          *)
(* parentheses are tokens of their own.  The macro is a step machine:      *)
(* the classification loop over the invocation arguments, the insertion    *)
(* loop over injected_tags, the synthesis of the attribute, the emission   *)
(* of the output, and then the execution of the emitted function, one      *)
(* body statement per step.                                                *)
(***************************************************************************)
EXTENDS Integers, Sequences, FiniteSets, TLC

VARIABLES
    pc,               \* position of the macro / of the emitted function
    args,             \* parsed invocation arguments (Punctuated<Meta, ,>)
    item,             \* the annotated function as parsed (syn::ItemFn)
    input_fn,         \* the function being rewritten (mut input_fn)
    instrument_args,  \* Vec<Meta> of pass-through arguments
    fields,           \* Vec<TokenTree> collected from fields(...) arguments
    db_ident,         \* token stream of the handle expression
    i,                \* index of the next argument of `for arg in args`
    j,                \* index of the next tag of `for tag in injected_tags`
    instrument_attr,  \* token stream of the synthesized attribute
    output,           \* token stream returned by the macro
    conn,             \* connection options seen by the emitted function
    ip,               \* number of body statements the emitted function has run
    recorded,         \* Span::current().record(..) calls made so far
    suspensions       \* suspension (await) points passed so far

vars == <<pc, args, item, input_fn, instrument_args, fields, db_ident, i, j,
          instrument_attr, output, conn, ip, recorded, suspensions>>

-----------------------------------------------------------------------------
(* Bounds *)

MaxArgs == 2
MaxBody == 2

-----------------------------------------------------------------------------
(* Inputs *)

\* syn::Path in mod style: optional leading `::` and identifier segments.
Ident(name) == [leading |-> FALSE, segments |-> <<name>>]

MetaPath(p) == [kind |-> "Path", path |-> p, value |-> <<>>, tokens |-> <<>>]
MetaNameValue(p, v) == [kind |-> "NameValue", path |-> p, value |-> v, tokens |-> <<>>]
MetaList(p, t) == [kind |-> "List", path |-> p, value |-> <<>>, tokens |-> t]

ArgPool ==
    { MetaList(Ident("skip"), <<"db">>),
      MetaNameValue(Ident("level"), <<"\"info\"">>),
      MetaNameValue(Ident("db"), <<"conn">>),
      MetaNameValue(Ident("db"), <<"*", "tx">>),
      MetaNameValue(Ident("db"), <<"pool", "(", ")", ".", "await">>),
      MetaList(Ident("fields"), <<"x", ",", "y">>),
      MetaList(Ident("fields"), <<"foo">>),
      MetaPath([leading |-> FALSE, segments |-> <<"a", "b">>]),
      MetaNameValue([leading |-> FALSE, segments |-> <<"a", "b">>], <<"1">>),
      MetaList([leading |-> TRUE, segments |-> <<"fields">>], <<"z">>) }

SeqsUpTo(S, n) == UNION { [1..k -> S] : k \in 0..n }

ArgLists == SeqsUpTo(ArgPool, MaxArgs)

\* Statements of the original body, as token streams.
StmtPool ==
    { <<"let", "query", "=", "build", "(", ")", ";">>,
      <<"query", ".", "fetch_one", "(", "db", ")", ".", "await">> }

Items ==
    { [attrs |-> a, sig |-> <<"async", "fn", "fetch_user", "(", "db", ")">>, stmts |-> b] :
        a \in { <<>>, <<"#", "[", "inline", "]">> }, b \in SeqsUpTo(StmtPool, MaxBody) }

\* Strings the emitted code handles at run time are sequences of characters.
Postgres == <<"p", "o", "s", "t", "g", "r", "e", "s">>
Postgresql == Postgres \o <<"q", "l">>
Mysql == <<"m", "y", "s", "q", "l">>

Conns ==
    { [scheme |-> s, host |-> "db.local", port |-> 5432, database |-> "users"] :
        s \in { Postgres, Postgresql, Mysql } }

NoConn == [scheme |-> <<>>, host |-> "", port |-> 0, database |-> ""]

-----------------------------------------------------------------------------
(* Token helpers *)

RECURSIVE Flatten(_)
Flatten(ss) == IF ss = <<>> THEN <<>> ELSE Head(ss) \o Flatten(Tail(ss))

\* quote!'s `#(#xs),*`: the items separated by commas, no trailing comma.
RECURSIVE Separated(_)
Separated(ss) ==
    IF ss = <<>> THEN <<>>
    ELSE IF Len(ss) = 1 THEN Head(ss)
    ELSE Head(ss) \o <<",">> \o Separated(Tail(ss))

RECURSIVE PathTokens(_)
PathTokens(p) ==
    IF p.leading THEN <<"::">> \o PathTokens([p EXCEPT !.leading = FALSE])
    ELSE IF Len(p.segments) = 1 THEN p.segments
    ELSE <<Head(p.segments), "::">> \o PathTokens([p EXCEPT !.segments = Tail(p.segments)])

\* <Meta as ToTokens>::to_tokens
MetaTokens(m) ==
    CASE m.kind = "Path" -> PathTokens(m.path)
      [] m.kind = "NameValue" -> PathTokens(m.path) \o <<"=">> \o m.value
      [] m.kind = "List" -> PathTokens(m.path) \o <<"(">> \o m.tokens \o <<")">>

\* Variant: the leading `::` is not looked at.
HasIdent_segments_only(p) == Len(p.segments) = 1

\* syn::Path::get_ident: Some only for a single segment without leading `::`.
HasIdent(p) == ~p.leading /\ Len(p.segments) = 1

get_ident(p) == p.segments[1]

-----------------------------------------------------------------------------
(* Injected statements *)

Lit(name) == "\"" \o name \o "\""

GetDatabase == <<".", "get_database", "(", ")">>
GetHost == <<".", "get_host", "(", ")">>
GetPort == <<".", "get_port", "(", ")">>
SchemeReplaced ==
    <<".", "to_url_lossy", "(", ")", ".", "scheme", "(", ")",
      ".", "replace", "(", Lit("postgres"), ",", Lit("postgresql"), ")">>

RecordPrefix ==
    <<"::", "tracing", "::", "Span", "::", "current", "(", ")", ".", "record", "(">>

\* quote! { ::tracing::Span::current().record(name, #db_ident.connect_options()<accessor>); }
RecordStmt(name, db, accessor) ==
    RecordPrefix \o <<Lit(name), ",">> \o db
        \o <<".", "connect_options", "(", ")">> \o accessor \o <<")", ";">>

UseStmt == <<"use", "::", "sqlx", "::", "ConnectOptions", ";">>

\* Variant: the list written in the order wanted in the body.
injected_tags_in_body_order(db) ==
    << UseStmt,
       RecordStmt("db.system", db, SchemeReplaced),
       RecordStmt("db.name", db, GetDatabase),
       RecordStmt("db.instance", db, GetDatabase),
       RecordStmt("out.port", db, GetPort),
       RecordStmt("out.host", db, GetHost),
       RecordStmt("peer.hostname", db, GetHost),
       RecordStmt("peer.service", db, GetDatabase) >>

\* Variant: one record names a field the attribute does not declare.
injected_tags_misnamed(db) ==
    << RecordStmt("service.name", db, GetDatabase),
       RecordStmt("peer.hostname", db, GetHost),
       RecordStmt("out.host", db, GetHost),
       RecordStmt("out.port", db, GetPort),
       RecordStmt("db.instance", db, GetDatabase),
       RecordStmt("db.name", db, GetDatabase),
       RecordStmt("db.system", db, SchemeReplaced),
       UseStmt >>

\* let injected_tags = vec![ ... ] ("These are in reverse.")
injected_tags(db) ==
    << RecordStmt("peer.service", db, GetDatabase),
       RecordStmt("peer.hostname", db, GetHost),
       RecordStmt("out.host", db, GetHost),
       RecordStmt("out.port", db, GetPort),
       RecordStmt("db.instance", db, GetDatabase),
       RecordStmt("db.name", db, GetDatabase),
       RecordStmt("db.system", db, SchemeReplaced),
       UseStmt >>

\* Variant: Vec::push(stmt).
insert0_push(stmts, stmt) == Append(stmts, stmt)

\* Variant: stmts[0] = stmt, overwriting the statement at the front.
insert0_overwrite(stmts, stmt) == IF stmts = <<>> THEN <<stmt>> ELSE <<stmt>> \o Tail(stmts)

\* Vec::insert(0, stmt)
insert0(stmts, stmt) == <<stmt>> \o stmts

-----------------------------------------------------------------------------
(* Attribute synthesis *)

\* The literal tokens of the quote! block up to the #(#fields),* interpolation.
FieldsHead ==
    << "span", ".", "kind", "=", Lit("client"), ",",
       "span", ".", "type", "=", Lit("sql"), ",",
       "component", "=", Lit("sqlx"),
       "operation", "=", Lit("sqlx.query"), ",",
       "peer", ".", "hostname", ",",
       "peer", ".", "service", ",",
       "out", ".", "host", ",",
       "out", ".", "port", ",",
       "db", ".", "system", ",",
       "db", ".", "instance", ",",
       "db", ".", "name", ",",
       "db", ".", "statement", "," >>

\* Each element of `fields` is one token tree.
TokenTrees(ts) == [k \in 1..Len(ts) |-> <<ts[k]>>]

MetaTokenSeq(ms) == [k \in 1..Len(ms) |-> MetaTokens(ms[k])]

AttrOpen == <<"#", "[", "::", "tracing", "::", "instrument", "(">>

\* quote! { #[::tracing::instrument( fields( ... #(#fields),* ) #(#instrument_args),* )] }
InstrumentAttr(fs, ias) ==
    AttrOpen \o <<"fields", "(">> \o FieldsHead \o Separated(TokenTrees(fs)) \o <<")">>
        \o Separated(MetaTokenSeq(ias)) \o <<")", "]">>

\* <ItemFn as ToTokens>::to_tokens
ItemFnTokens(f) == f.attrs \o f.sig \o <<"{">> \o Flatten(f.stmts) \o <<"}">>

-----------------------------------------------------------------------------
(* Reading the emitted tokens back, as the compiler does *)

RECURSIVE IndexFrom(_, _, _)
IndexFrom(ts, tok, k) ==
    IF k > Len(ts) THEN 0
    ELSE IF ts[k] = tok THEN k
    ELSE IndexFrom(ts, tok, k + 1)

RECURSIVE Count(_, _)
Count(ts, tok) ==
    IF ts = <<>> THEN 0
    ELSE (IF Head(ts) = tok THEN 1 ELSE 0) + Count(Tail(ts), tok)

\* Index of the ")" that closes the "(" at index `open`.
RECURSIVE CloseFrom(_, _, _)
CloseFrom(ts, k, depth) ==
    IF k > Len(ts) THEN 0
    ELSE IF ts[k] = "(" THEN CloseFrom(ts, k + 1, depth + 1)
    ELSE IF ts[k] = ")" THEN (IF depth = 1 THEN k ELSE CloseFrom(ts, k + 1, depth - 1))
    ELSE CloseFrom(ts, k + 1, depth)

MatchClose(ts, open) == CloseFrom(ts, open + 1, 1)

\* The comma-separated entries of a token stream (commas inside parentheses
\* do not separate); a trailing comma ends the last entry.
RECURSIVE SplitFrom(_, _, _, _)
SplitFrom(ts, k, depth, cur) ==
    IF k > Len(ts) THEN (IF cur = <<>> THEN <<>> ELSE <<cur>>)
    ELSE IF ts[k] = "," /\ depth = 0 THEN <<cur>> \o SplitFrom(ts, k + 1, 0, <<>>)
    ELSE SplitFrom(ts, k + 1,
                   depth + (IF ts[k] = "(" THEN 1 ELSE IF ts[k] = ")" THEN -1 ELSE 0),
                   Append(cur, ts[k]))

Entries(ts) == SplitFrom(ts, 1, 0, <<>>)

IsRecord(stmt) ==
    /\ Len(stmt) > Len(RecordPrefix) + 2
    /\ SubSeq(stmt, 1, Len(RecordPrefix)) = RecordPrefix

\* The string literal passed as the first argument of record(..).
RecordName(stmt) == stmt[Len(RecordPrefix) + 1]

\* Operators that bind less tightly than a method call.
LooserThanCall == {"*", "&", "!", "-", "+", "/", "mut"}

RECURSIVE ReceiverStart(_, _, _)
ReceiverStart(stmt, k, low) ==
    IF k <= low \/ stmt[k - 1] \in LooserThanCall THEN k
    ELSE ReceiverStart(stmt, k - 1, low)

\* The expression `.connect_options()` is called on: the longest run of tokens
\* before it that a method call binds to.
Receiver(stmt) ==
    LET c == IndexFrom(stmt, "connect_options", 1)
        low == Len(RecordPrefix) + 3
    IN  SubSeq(stmt, ReceiverStart(stmt, c - 1, low), c - 2)

\* str::replace: every non-overlapping match, left to right.
RECURSIVE replace(_, _, _)
replace(s, from, to) ==
    IF Len(s) < Len(from) THEN s
    ELSE IF SubSeq(s, 1, Len(from)) = from
    THEN to \o replace(SubSeq(s, Len(from) + 1, Len(s)), from, to)
    ELSE <<Head(s)>> \o replace(Tail(s), from, to)

\* The value a record statement passes to record(..), given the connection.
RecordValue(stmt, c) ==
    IF IndexFrom(stmt, "get_database", 1) > 0 THEN c.database
    ELSE IF IndexFrom(stmt, "get_host", 1) > 0 THEN c.host
    ELSE IF IndexFrom(stmt, "get_port", 1) > 0 THEN c.port
    ELSE IF IndexFrom(stmt, "replace", 1) > 0 THEN replace(c.scheme, Postgres, Postgresql)
    ELSE c.scheme

-----------------------------------------------------------------------------
(* The macro *)

Init ==
    /\ pc = "classify"
    /\ args \in ArgLists
    /\ item \in Items
    /\ input_fn = item
    /\ instrument_args = <<>>
    /\ fields = <<>>
    /\ db_ident = <<"db">>
    /\ i = 1
    /\ j = 1
    /\ instrument_attr = <<>>
    /\ output = <<>>
    /\ conn = NoConn
    /\ ip = 0
    /\ recorded = <<>>
    /\ suspensions = 0

\* One iteration of `for arg in args` that does not panic.
ClassifyArg ==
    /\ pc = "classify"
    /\ i <= Len(args)
    /\ LET arg == args[i] IN
        /\ arg.kind \in {"NameValue", "List"} => HasIdent(arg.path)
        /\ IF arg.kind = "NameValue" /\ get_ident(arg.path) = "db"
           THEN /\ db_ident' = arg.value
                /\ UNCHANGED <<instrument_args, fields>>
           ELSE IF arg.kind = "List" /\ get_ident(arg.path) = "fields"
           THEN /\ fields' = fields \o arg.tokens
                /\ UNCHANGED <<instrument_args, db_ident>>
           ELSE /\ instrument_args' = Append(instrument_args, arg)
                /\ UNCHANGED <<fields, db_ident>>
    /\ i' = i + 1
    /\ UNCHANGED <<pc, args, item, input_fn, j, instrument_attr, output,
                   conn, ip, recorded, suspensions>>

\* get_ident().unwrap() on a name that is not a single identifier.
ClassifyPanic ==
    /\ pc = "classify"
    /\ i <= Len(args)
    /\ args[i].kind \in {"NameValue", "List"}
    /\ ~HasIdent(args[i].path)
    /\ pc' = "failed"
    /\ UNCHANGED <<args, item, input_fn, instrument_args, fields, db_ident, i, j,
                   instrument_attr, output, conn, ip, recorded, suspensions>>

ClassifyDone ==
    /\ pc = "classify"
    /\ i > Len(args)
    /\ pc' = "inject"
    /\ UNCHANGED <<args, item, input_fn, instrument_args, fields, db_ident, i, j,
                   instrument_attr, output, conn, ip, recorded, suspensions>>

\* One iteration of `for tag in injected_tags`.
Inject ==
    /\ pc = "inject"
    /\ j <= Len(injected_tags(db_ident))
    /\ input_fn' = [input_fn EXCEPT !.stmts = insert0(@, injected_tags(db_ident)[j])]
    /\ j' = j + 1
    /\ UNCHANGED <<pc, args, item, instrument_args, fields, db_ident, i,
                   instrument_attr, output, conn, ip, recorded, suspensions>>

Synthesize ==
    /\ pc = "inject"
    /\ j > Len(injected_tags(db_ident))
    /\ instrument_attr' = InstrumentAttr(fields, instrument_args)
    /\ pc' = "synthesized"
    /\ UNCHANGED <<args, item, input_fn, instrument_args, fields, db_ident, i, j,
                   output, conn, ip, recorded, suspensions>>

\* let output = quote! { #instrument_attr #input_fn }; TokenStream::from(output)
Emit ==
    /\ pc = "synthesized"
    /\ output' = instrument_attr \o ItemFnTokens(input_fn)
    /\ pc' = "emitted"
    /\ UNCHANGED <<args, item, input_fn, instrument_args, fields, db_ident, i, j,
                   instrument_attr, conn, ip, recorded, suspensions>>

\* The emitted function is called with a connection.
Call ==
    /\ pc = "emitted"
    /\ \E c \in Conns : conn' = c
    /\ pc' = "running"
    /\ UNCHANGED <<args, item, input_fn, instrument_args, fields, db_ident, i, j,
                   instrument_attr, output, ip, recorded, suspensions>>

\* The emitted function runs its next body statement.
Exec ==
    /\ pc = "running"
    /\ ip < Len(input_fn.stmts)
    /\ LET stmt == input_fn.stmts[ip + 1] IN
        /\ suspensions' = suspensions + Count(stmt, "await")
        /\ recorded' = IF IsRecord(stmt)
                       THEN Append(recorded, [name |-> RecordName(stmt),
                                              value |-> RecordValue(stmt, conn)])
                       ELSE recorded
    /\ ip' = ip + 1
    /\ UNCHANGED <<pc, args, item, input_fn, instrument_args, fields, db_ident, i, j,
                   instrument_attr, output, conn>>

Return ==
    /\ pc = "running"
    /\ ip = Len(input_fn.stmts)
    /\ pc' = "returned"
    /\ UNCHANGED <<args, item, input_fn, instrument_args, fields, db_ident, i, j,
                   instrument_attr, output, conn, ip, recorded, suspensions>>

Next ==
    \/ ClassifyArg \/ ClassifyPanic \/ ClassifyDone
    \/ Inject \/ Synthesize \/ Emit
    \/ Call \/ Exec \/ Return

Spec == Init /\ [][Next]_vars

-----------------------------------------------------------------------------
(* Reading the emitted function and attribute *)

\* The macro has returned its output and the function has not been called yet.
Emitted == pc = "emitted"

RECURSIVE Reverse(_)
Reverse(ss) == IF ss = <<>> THEN <<>> ELSE Append(Reverse(Tail(ss)), Head(ss))

RECURSIVE JoinName(_)
JoinName(ts) == IF ts = <<>> THEN "" ELSE Head(ts) \o JoinName(Tail(ts))

IsDbEntry(m) == m.kind = "NameValue" /\ m.path = Ident("db")
IsFieldsEntry(m) == m.kind = "List" /\ m.path = Ident("fields")
IsForwardable(m) == ~IsDbEntry(m) /\ ~IsFieldsEntry(m)
NamedFormWithoutIdent(m) ==
    /\ m.kind \in {"NameValue", "List"}
    /\ m.path.leading \/ Len(m.path.segments) # 1
NameNotIdent(m) == m.path.leading \/ Len(m.path.segments) # 1

\* The entries that are neither a `db = <expr>` nor a `fields(...)` entry.
RECURSIVE Forwardable(_)
Forwardable(ms) ==
    IF ms = <<>> THEN <<>>
    ELSE (IF IsForwardable(Head(ms)) THEN <<Head(ms)>> ELSE <<>>) \o Forwardable(Tail(ms))

\* The handle expression the invocation asks for.
ExpectedDb ==
    LET S == {k \in 1..Len(args) : IsDbEntry(args[k])}
    IN  IF S = {} THEN <<"db">>
        ELSE args[CHOOSE k \in S : \A m \in S : m <= k].value

\* The entries the invocation wrote inside its fields(...) arguments.
RECURSIVE WrittenFieldEntries(_)
WrittenFieldEntries(ms) ==
    IF ms = <<>> THEN <<>>
    ELSE (IF IsFieldsEntry(Head(ms)) THEN Entries(Head(ms).tokens) ELSE <<>>)
            \o WrittenFieldEntries(Tail(ms))

AttrFieldsOpen == IndexFrom(instrument_attr, "fields", 1) + 1
AttrFieldsClose == MatchClose(instrument_attr, AttrFieldsOpen)
AttrClose == MatchClose(instrument_attr, Len(AttrOpen))

\* The comma-separated entries of the emitted fields(...) list.
FieldEntries == Entries(SubSeq(instrument_attr, AttrFieldsOpen + 1, AttrFieldsClose - 1))

\* The tokens of the emitted attribute after the fields(...) list.
TrailingTokens == SubSeq(instrument_attr, AttrFieldsClose + 1, AttrClose - 1)

Vocabulary ==
    << <<"span", ".", "kind", "=", Lit("client")>>,
       <<"span", ".", "type", "=", Lit("sql")>>,
       <<"component", "=", Lit("sqlx")>>,
       <<"operation", "=", Lit("sqlx.query")>>,
       <<"peer", ".", "hostname">>,
       <<"peer", ".", "service">>,
       <<"out", ".", "host">>,
       <<"out", ".", "port">>,
       <<"db", ".", "system">>,
       <<"db", ".", "instance">>,
       <<"db", ".", "name">>,
       <<"db", ".", "statement">> >>

DbStatement == <<"db", ".", "statement">>

RECURSIVE EntryIndex(_, _, _)
EntryIndex(es, e, k) ==
    IF k > Len(es) THEN 0 ELSE IF es[k] = e THEN k ELSE EntryIndex(es, e, k + 1)

\* Entries of the emitted list up to db.statement, and those after it.
FixedEntries == SubSeq(FieldEntries, 1, EntryIndex(FieldEntries, DbStatement, 1))
ExtraEntries ==
    SubSeq(FieldEntries, EntryIndex(FieldEntries, DbStatement, 1) + 1, Len(FieldEntries))

DeclaredOnly(es) ==
    {Lit(JoinName(es[k])) : k \in {m \in 1..Len(es) : es[m] # <<>> /\ Count(es[m], "=") = 0}}

RecordedFields ==
    <<"peer.hostname", "peer.service", "out.host", "out.port",
      "db.system", "db.instance", "db.name">>

BodyOrder ==
    <<"db.system", "db.name", "db.instance", "out.port", "out.host",
      "peer.hostname", "peer.service">>

Injected == SubSeq(input_fn.stmts, 1, 8)

InjectedRecordNames == {RecordName(Injected[k]) : k \in {m \in 1..8 : IsRecord(Injected[m])}}

IsOriginal(stmt) == ~IsRecord(stmt) /\ stmt # UseStmt

AllRecorded ==
    \A k \in 1..Len(RecordedFields) :
        \E r \in 1..Len(recorded) : recorded[r].name = Lit(RecordedFields[k])

-----------------------------------------------------------------------------
(* Claims *)

\* C1 (as stated): with an empty argument list the emitted fields(...) list is
\* exactly the twelve entries of the vocabulary, comma-separated and in order,
\* and nothing follows the fields(...) list.
C1_TwelveEntries ==
    (Emitted /\ args = <<>>) => (FieldEntries = Vocabulary /\ TrailingTokens = <<>>)

\* C2 (as stated): the receiver of connect_options() in each of the seven
\* injected record statements is the value of the last `db = <expr>` entry,
\* or the identifier db when there is none.
C2_ReceiverIsHandleExpression ==
    Emitted =>
        /\ Cardinality({k \in 1..8 : IsRecord(Injected[k])}) = 7
        /\ \A k \in 1..8 : IsRecord(Injected[k]) => Receiver(Injected[k]) = ExpectedDb

\* C3 (as stated): the value recorded for db.system is postgresql when the
\* scheme is postgres, and the scheme itself for every other scheme.
C3_SchemeRewrite ==
    \A r \in 1..Len(recorded) :
        recorded[r].name = Lit("db.system") =>
            recorded[r].value = IF conn.scheme = Postgres THEN Postgresql ELSE conn.scheme

\* C4 (as stated): the entries of the emitted fields(...) list that follow the
\* fixed vocabulary are exactly the entries written inside the fields(...)
\* arguments, in argument order, none added, lost or split.
C4_ExtraFieldsAsWritten ==
    (Emitted /\ \E k \in 1..Len(args) : IsFieldsEntry(args[k])) =>
        ExtraEntries = WrittenFieldEntries(args)

\* C5 (as stated): what follows the emitted fields(...) list is, separated from
\* it and from each other by commas, exactly the entries that are neither a
\* `db = <expr>` nor a `fields(...)` entry, unchanged and in their order.
C5_PassThroughCommaSeparated ==
    Emitted =>
        LET fw == MetaTokenSeq(Forwardable(args))
        IN  IF fw = <<>> THEN TrailingTokens = <<>>
            ELSE /\ Head(TrailingTokens) = ","
                 /\ Entries(Tail(TrailingTokens)) = fw

\* C6: the first eight statements of the emitted body are the use statement and
\* then the records of db.system, db.name, db.instance, out.port, out.host,
\* peer.hostname, peer.service; the original first statement follows directly;
\* this is the reverse of the construction list.
C6_InjectedOrder ==
    Emitted =>
        /\ Len(input_fn.stmts) >= 8
        /\ Injected[1] = UseStmt
        /\ \A k \in 1..7 :
              IsRecord(Injected[k + 1]) /\ RecordName(Injected[k + 1]) = Lit(BodyOrder[k])
        /\ item.stmts # <<>> => input_fn.stmts[9] = item.stmts[1]
        /\ Injected = Reverse(injected_tags(db_ident))

C6_Witness == pc = "emitted" /\ Len(item.stmts) = 2 /\ db_ident # <<"db">>

\* C7 (as stated): the names recorded by the injected statements are exactly
\* the declared-only fields of the emitted attribute minus db.statement.
C7_RecordedEqualsDeclaredOnly ==
    Emitted => InjectedRecordNames = DeclaredOnly(FieldEntries) \ {Lit("db.statement")}

\* C7 (amended): the names recorded by the injected statements are exactly the
\* declared-only fields of the fixed part of the emitted list (up to and
\* including db.statement) minus db.statement; each of the seven is recorded by
\* exactly one injected statement, db.statement by none, and every recorded
\* name is declared in the emitted list.
C7_RecordedEqualsFixedDeclaredOnly ==
    Emitted =>
        /\ InjectedRecordNames = DeclaredOnly(FixedEntries) \ {Lit("db.statement")}
        /\ \A n \in 1..Len(RecordedFields) :
              Cardinality({k \in 1..8 : IsRecord(Injected[k])
                                         /\ RecordName(Injected[k]) = Lit(RecordedFields[n])}) = 1
        /\ Lit("db.statement") \notin InjectedRecordNames
        /\ InjectedRecordNames \subseteq DeclaredOnly(FieldEntries)

C7_Witness ==
    /\ pc = "emitted"
    /\ DeclaredOnly(FieldEntries) # DeclaredOnly(FixedEntries)

\* C8 (as stated): an argument list with an entry whose name is not a single
\* identifier, whatever the entry's form, never yields a rewritten function.
C8_AnyFormAborts ==
    (\E k \in 1..Len(args) : NameNotIdent(args[k])) =>
        (pc \in {"classify", "failed"} /\ output = <<>>)

\* C8 (amended): an argument list with a name=value or name(list) entry whose
\* name is not a single identifier never yields a rewritten function: the loop
\* stops at the first such entry and none is forwarded; a name-only entry is
\* forwarded whatever its name.
C8_NamedFormAborts ==
    /\ \A k \in 1..Len(args) :
          NamedFormWithoutIdent(args[k]) =>
              /\ pc \in {"classify", "failed"}
              /\ output = <<>> /\ instrument_attr = <<>>
              /\ i <= k
    /\ \A m \in 1..Len(instrument_args) : ~NamedFormWithoutIdent(instrument_args[m])
    /\ Emitted =>
          \A k \in 1..Len(args) :
              args[k].kind = "Path" =>
                  \E m \in 1..Len(instrument_args) : instrument_args[m] = args[k]

C8_Witness ==
    /\ pc = "failed"
    /\ i = 2
    /\ NamedFormWithoutIdent(args[2])

\* C9 (as stated): the seven records complete before the first original
\* statement starts, the injected statements contain no suspension point, and
\* the emitted function passes exactly the suspension points of the original.
C9_NoAddedSuspension ==
    /\ (pc \in {"running", "returned"} /\ ip < Len(input_fn.stmts)
            /\ IsOriginal(input_fn.stmts[ip + 1])) => AllRecorded
    /\ Emitted => \A k \in 1..8 : Count(Injected[k], "await") = 0
    /\ pc = "returned" => suspensions = Count(Flatten(item.stmts), "await")

\* C9 (amended): the seven records complete before the first original
\* statement starts and before the function returns; the injected statements
\* contain no suspension point besides those written in the handle expression,
\* which each of the seven record statements evaluates, so the emitted function
\* passes the suspension points of the original plus seven times those of the
\* handle expression (none for the default handle).
C9_RecordsBeforeBody ==
    /\ (pc \in {"running", "returned"} /\ ip < Len(input_fn.stmts)
            /\ IsOriginal(input_fn.stmts[ip + 1])) => AllRecorded
    /\ pc = "returned" => AllRecorded
    /\ Emitted =>
          /\ Count(Injected[1], "await") = 0
          /\ \A k \in 2..8 : Count(Injected[k], "await") = Count(ExpectedDb, "await")
    /\ pc = "returned" =>
          suspensions = Count(Flatten(item.stmts), "await") + 7 * Count(ExpectedDb, "await")

C9_Witness ==
    /\ pc = "running"
    /\ ip = 8
    /\ Len(item.stmts) > 0
    /\ Count(item.stmts[1], "await") = 1
    /\ Count(ExpectedDb, "await") = 1

\* C10: the rewrite adds exactly eight statements at the front of the body and
\* one attribute in front of the function; signature, existing attributes and
\* the original statements, in order at positions 9 onward, are unchanged.
C10_Frame ==
    Emitted =>
        /\ input_fn.sig = item.sig
        /\ input_fn.attrs = item.attrs
        /\ Len(input_fn.stmts) = Len(item.stmts) + 8
        /\ SubSeq(input_fn.stmts, 9, Len(input_fn.stmts)) = item.stmts
        /\ \A k \in 1..8 : ~IsOriginal(input_fn.stmts[k])
        /\ output = instrument_attr \o item.attrs \o item.sig \o <<"{">>
                        \o Flatten(Injected) \o Flatten(item.stmts) \o <<"}">>
        /\ SubSeq(instrument_attr, 1, Len(AttrOpen)) = AttrOpen
        /\ AttrClose = Len(instrument_attr) - 1

C10_Witness == pc = "emitted" /\ Len(item.stmts) = 2 /\ item.attrs # <<>>

====
